---- MODULE Spec2Model ----
(***************************************************************************)
(* Port-exposure lifecycle of SimpleShell (src/shell.py): the firewall     *)
(* rule and UPnP mapping globals, the `public` command of run_shell,       *)
(* add_firewall_rule, setup_upnp, cleanup_upnp, the SIGINT/SIGTERM         *)
(* handler and the atexit hook.                                            *)
(*                                                                         *)
(* The interpreter is modelled as a call stack of frames.  A frame's pc    *)
(* is the source line it is about to execute.  A signal handler can be     *)
(* entered on top of any frame; it never returns normally (it ends in      *)
(* sys.exit or in an exception of cleanup_upnp), so the frames below it    *)
(* only unwind through their except/finally clauses.                       *)
(*                                                                         *)
(* External capabilities (netsh through subprocess.run, the UPnP gateway)  *)
(* answer nondeterministically; every call issued is appended to `log`.    *)
(***************************************************************************)
EXTENDS Integers, Sequences, FiniteSets

VARIABLES
    upnp_instance,  \* shell.py:19  <<>> is None, <<h>> the UPnP object h
    mapped_port,    \* shell.py:20  <<>> is None, <<n>> the integer n
    mapped_proto,   \* shell.py:21  <<>> is None, <<s>> the string s
    fw_rule_name,   \* shell.py:22  <<>> is None, <<s>> the string s
    stack,          \* interpreter call stack, innermost frame last
    exc,            \* exception in flight and the function that raised it
    log,            \* external calls and console milestones so far, in order
    nPublic,        \* `public` commands that passed validation
    nSignals        \* signals delivered

vars == <<upnp_instance, mapped_port, mapped_proto, fw_rule_name,
          stack, exc, log, nPublic, nSignals>>

\* ---------------------------------------------------------------- bounds
MaxPublic == 2
MaxSignals == 1

\* ------------------------------------------------------- Python values
None == <<>>

Some(x) == <<x>>

\* truth value of an optional integer (None and 0 are false)
TruthyInt(v) == v # None /\ v[1] # 0

\* truth value of an optional string (None and "" are false)
TruthyStr(v) == v # None /\ v[1] # ""

\* truth value of an optional object reference (None is false)
TruthyObj(v) == v # None

\* ------------------------------------------------------- text handling
DigitChars == <<"0", "1", "2", "3", "4", "5", "6", "7", "8", "9">>

IsDigit(c) == \E i \in 1..10 : DigitChars[i] = c

DigitVal(c) == (CHOOSE i \in 1..10 : DigitChars[i] = c) - 1

RECURSIVE DigitsVal(_)
DigitsVal(s) ==
    IF s = <<>> THEN 0
    ELSE 10 * DigitsVal(SubSeq(s, 1, Len(s) - 1)) + DigitVal(s[Len(s)])

AllDigits(s) == s # <<>> /\ \A i \in 1..Len(s) : IsDigit(s[i])

\* int(text): <<n>> when text is an optionally signed decimal numeral,
\* None when int() raises ValueError
ParseInt(s) ==
    IF s # <<>> /\ s[1] \in {"-", "+"}
    THEN IF AllDigits(Tail(s))
         THEN Some((IF s[1] = "-" THEN -1 ELSE 1) * DigitsVal(Tail(s)))
         ELSE None
    ELSE IF AllDigits(s) THEN Some(DigitsVal(s)) ELSE None

RECURSIVE NatStr(_)
NatStr(n) ==
    IF n < 10 THEN DigitChars[n + 1]
    ELSE NatStr(n \div 10) \o DigitChars[(n % 10) + 1]

\* str(n) for an integer n
IntStr(n) == IF n < 0 THEN "-" \o NatStr(0 - n) ELSE NatStr(n)

LowerChars == <<"c", "d", "i", "m", "p", "t", "u">>

UpperChars == <<"C", "D", "I", "M", "P", "T", "U">>

UpperChar(c) ==
    IF \E i \in 1..Len(LowerChars) : LowerChars[i] = c
    THEN UpperChars[CHOOSE i \in 1..Len(LowerChars) : LowerChars[i] = c]
    ELSE c

RECURSIVE Join(_)
Join(s) == IF s = <<>> THEN "" ELSE s[1] \o Join(Tail(s))

\* token.upper(), as a string
Upper(s) == Join([i \in 1..Len(s) |-> UpperChar(s[i])])

PortPrefix == <<"-", "-", "p", "o", "r", "t", ":">>

\* p.startswith("--port:")
StartsWithPort(p) ==
    Len(p) >= Len(PortPrefix) /\ SubSeq(p, 1, Len(PortPrefix)) = PortPrefix

\* p.split(':', 1)[1] for a p that contains ':'
AfterColon(p) ==
    LET k == CHOOSE i \in 1..Len(p) :
                 p[i] = ":" /\ \A j \in 1..(i - 1) : p[j] # ":"
    IN  SubSeq(p, k + 1, Len(p))

\* the loop of shell.py:217-223: the last --port: parameter that parses wins
RECURSIVE ParsePort(_, _)
ParsePort(ps, acc) ==
    IF ps = <<>> THEN acc
    ELSE LET p == ps[1]
             v == IF StartsWithPort(p) THEN ParseInt(AfterColon(p)) ELSE None
         IN  ParsePort(Tail(ps), IF v # None THEN v ELSE acc)

\* f"MiniShell_{port}_{proto}"
RuleName(port, proto) == "MiniShell_" \o IntStr(port) \o "_" \o proto

\* ------------------------------------------------------ command inputs
PortParam(text) == PortPrefix \o text

TokTcp == <<"t", "c", "p">>

TokUdp == <<"U", "d", "p">>

TokIcmp == <<"I", "C", "M", "P">>

\* params of the `public` command lines that are entered
PublicParams ==
    { <<>>,
      <<TokTcp>>,
      <<TokTcp, PortParam(<<"8">>)>>,
      <<TokUdp, PortParam(<<"0", "8">>), PortParam(<<"x">>)>>,
      <<TokUdp, PortParam(<<"0">>)>>,
      <<TokTcp, PortParam(<<"-", "8">>)>>,
      <<TokIcmp, PortParam(<<"8">>)>>,
      <<TokTcp, PortParam(<<"x">>)>>,
      <<TokTcp, PortParam(<<"8", "x">>)>>,
      <<TokUdp, PortParam(<<>>)>>,
      <<TokUdp, <<"-", "-", "p", "o", "r", "t">>>>,
      <<TokTcp, <<"8">>>>,
      <<PortParam(<<"8">>), TokTcp>> }

\* --------------------------------------------------------------- frames
\* an exception: its type ("SystemExit", or "OSError" for whatever other
\* than CalledProcessError a call fails with) and the function raising it
Raised(type, origin) == [type |-> type, origin |-> origin]

NoExc == Raised("none", "none")

Frame(fn, pc) ==
    [fn |-> fn, pc |-> pc, port |-> 0, proto |-> "", res |-> "",
     pend |-> NoExc, u |-> 0]

Top == stack[Len(stack)]

SetTop(f) == [stack EXCEPT ![Len(stack)] = f]

Pop == SubSeq(stack, 1, Len(stack) - 1)

At(fn, pc) == stack # <<>> /\ exc = NoExc /\ Top.fn = fn /\ Top.pc = pc

Call(op, name, port, proto, res) ==
    [op |-> op, name |-> name, port |-> port, proto |-> proto, res |-> res]

\* console milestone: a call of cleanup_upnp ends by itself, returning or
\* raising ("raised"); a call cut short by a signal handler's exception
\* leaves no entry
TeardownEnd(how) == Call("TeardownEnd", "", 0, "", how)

Globals == <<upnp_instance, mapped_port, mapped_proto, fw_rule_name>>

Init ==
    /\ upnp_instance = None
    /\ mapped_port = None
    /\ mapped_proto = None
    /\ fw_rule_name = None
    /\ stack = <<Frame("run_shell", "L140")>>
    /\ exc = NoExc
    /\ log = <<>>
    /\ nPublic = 0
    /\ nSignals = 0

\* the frame below the top one resumes at pc, or the process ends when the
\* returning frame was called by the interpreter's exit hook
ReturnTo(pc) ==
    LET below == Pop
        caller == below[Len(below)]
    IN  IF caller.fn = "atexit" THEN <<>>
        ELSE [below EXCEPT ![Len(below)] = [caller EXCEPT !.pc = pc]]

\* --------------------------------------------------- run_shell commands
\* shell.py:146-148, 252-254 and the fall off the end of the module:
\* run_shell returns and the interpreter runs the atexit hook
LeaveShell == <<Frame("atexit", "call")>>

CmdExit ==
    /\ At("run_shell", "L140")
    /\ stack' = LeaveShell
    /\ UNCHANGED <<Globals, exc, log, nPublic, nSignals>>

PromptEOF ==
    /\ At("run_shell", "L140")
    /\ stack' = LeaveShell
    /\ UNCHANGED <<Globals, exc, log, nPublic, nSignals>>

\* shell.py:249-251: Ctrl-C at the prompt
PromptKeyboardInterrupt ==
    /\ At("run_shell", "L140")
    /\ UNCHANGED vars

\* shell.py:149-208, 247-248: the file commands and unknown commands
CmdOther ==
    /\ At("run_shell", "L140")
    /\ UNCHANGED vars

\* shell.py:156-162: ls and cd are not guarded; an OSError of theirs
\* leaves run_shell uncaught
CmdRaises ==
    /\ At("run_shell", "L140")
    /\ exc' = Raised("OSError", "run_shell")
    /\ UNCHANGED <<Globals, stack, log, nPublic, nSignals>>

\* ValidProto without the test of shell.py:214
ValidProtoAny(proto) == TRUE

\* shell.py:214
ValidProto(proto) == proto \in {"TCP", "UDP"}

\* shell.py:224
ValidPort(port) == port # None

\* shell.py:209-229: the rejecting branches go on to their print statement
CmdPublic(params) ==
    /\ At("run_shell", "L140")
    /\ LET proto == Upper(params[1])
           port == ParsePort(Tail(params), None)
       IN  IF Len(params) < 2
           THEN /\ stack' = SetTop([Top EXCEPT !.pc = "L211"])
                /\ UNCHANGED <<nPublic, log>>
           ELSE IF ~ValidProto(proto)
           THEN /\ stack' = SetTop([Top EXCEPT !.pc = "L215"])
                /\ UNCHANGED <<nPublic, log>>
           ELSE IF ~ValidPort(port)
           THEN /\ stack' = SetTop([Top EXCEPT !.pc = "L225"])
                /\ UNCHANGED <<nPublic, log>>
           ELSE /\ nPublic < MaxPublic
                /\ nPublic' = nPublic + 1
                /\ log' = Append(log, Call("Expose", "", port[1], proto, ""))
                /\ stack' = Append(
                       SetTop([Top EXCEPT !.pc = "L228", !.port = port[1],
                                          !.proto = proto]),
                       [Frame("add_firewall_rule", "L82")
                           EXCEPT !.port = port[1], !.proto = proto])
    /\ UNCHANGED <<Globals, exc, nSignals>>

RejectLines == {"L211", "L215", "L225"}

\* shell.py:211-212, 215-216, 225-226: print the message and continue
CmdRejected ==
    /\ stack # <<>> /\ exc = NoExc
    /\ Top.fn = "run_shell" /\ Top.pc \in RejectLines
    /\ stack' = SetTop([Top EXCEPT !.pc = "L140"])
    /\ UNCHANGED <<Globals, exc, log, nPublic, nSignals>>

\* shell.py:231-232
CallSetupUpnp ==
    /\ At("run_shell", "L231")
    /\ stack' = Append(
           SetTop([Top EXCEPT !.pc = "L232"]),
           [Frame("setup_upnp", "L115")
               EXCEPT !.port = Top.port, !.proto = Top.proto, !.u = nPublic])
    /\ UNCHANGED <<Globals, exc, log, nPublic, nSignals>>

\* shell.py:239-243: one turn of the status loop
ReportTick ==
    /\ At("run_shell", "L240")
    /\ UNCHANGED vars

\* ---------------------------------------------------- add_firewall_rule
\* shell.py:82
AfrSetName ==
    /\ At("add_firewall_rule", "L82")
    /\ fw_rule_name' = Some(RuleName(Top.port, Top.proto))
    /\ stack' = SetTop([Top EXCEPT !.pc = "L90"])
    /\ UNCHANGED <<upnp_instance, mapped_port, mapped_proto, exc, log,
                   nPublic, nSignals>>

AddRuleOutcomes == {"ok", "exists", "denied", "other", "oserror"}

\* SoftOutcomes without 'access is denied' (shell.py:95)
SoftOutcomesExistsOnly == {"exists"}

\* shell.py:95: the two stderr texts that count as success
SoftOutcomes == {"exists", "denied"}

\* what the log keeps of an outcome
AddRuleClass(res) == IF res \in SoftOutcomes THEN "soft" ELSE res

\* shell.py:83-90, 93-94: netsh ... add rule name="<fw_rule_name>"
AfrRun(res) ==
    /\ At("add_firewall_rule", "L90")
    /\ log' = Append(log, Call("AddRule", fw_rule_name[1], Top.port,
                               Top.proto, AddRuleClass(res)))
    /\ IF res = "oserror"
       THEN exc' = Raised("OSError", "add_firewall_rule") /\ UNCHANGED stack
       ELSE /\ stack' = SetTop([Top EXCEPT !.pc = "L91", !.res = res])
            /\ UNCHANGED exc
    /\ UNCHANGED <<Globals, nPublic, nSignals>>

\* shell.py:91-92, 95-100, and the test of shell.py:228
AfrReturn ==
    /\ At("add_firewall_rule", "L91")
    /\ stack' = ReturnTo(IF Top.res = "ok" \/ Top.res \in SoftOutcomes
                         THEN "L231" ELSE "L140")
    /\ UNCHANGED <<Globals, exc, log, nPublic, nSignals>>

\* ----------------------------------------------------------- setup_upnp
DiscoverOutcomes == {"found", "none", "error"}

\* shell.py:112-120: discover, selectigd, externalipaddress
SuDiscover(res) ==
    /\ At("setup_upnp", "L115")
    /\ stack' = SetTop([Top EXCEPT !.pc = CASE res = "found" -> "L122"
                                          [] res = "none" -> "L118"
                                          [] OTHER -> "L132"])
    /\ UNCHANGED <<Globals, exc, log, nPublic, nSignals>>

AddMappingOutcomes == {"ok", "rejected", "error"}

\* shell.py:122, 127-129: addportmapping(port, proto, lanaddr, port, ...)
SuAddMapping(res) ==
    /\ At("setup_upnp", "L122")
    /\ log' = Append(log, Call("AddMapping", "", Top.port, Top.proto,
                               IF res = "ok" THEN "ok" ELSE "failed"))
    /\ stack' = SetTop([Top EXCEPT !.pc = CASE res = "ok" -> "L123"
                                          [] res = "rejected" -> "L118"
                                          [] OTHER -> "L132"])
    /\ UNCHANGED <<Globals, exc, nPublic, nSignals>>

\* shell.py:123
SuRecordInstance ==
    /\ At("setup_upnp", "L123")
    /\ upnp_instance' = Some(Top.u)
    /\ stack' = SetTop([Top EXCEPT !.pc = "L124"])
    /\ UNCHANGED <<mapped_port, mapped_proto, fw_rule_name, exc, log,
                   nPublic, nSignals>>

\* shell.py:124
SuRecordPort ==
    /\ At("setup_upnp", "L124")
    /\ mapped_port' = Some(Top.port)
    /\ stack' = SetTop([Top EXCEPT !.pc = "L125"])
    /\ UNCHANGED <<upnp_instance, mapped_proto, fw_rule_name, exc, log,
                   nPublic, nSignals>>

\* shell.py:125
SuRecordProto ==
    /\ At("setup_upnp", "L125")
    /\ mapped_proto' = Some(Top.proto)
    /\ stack' = SetTop([Top EXCEPT !.pc = "L126"])
    /\ UNCHANGED <<upnp_instance, mapped_port, fw_rule_name, exc, log,
                   nPublic, nSignals>>

\* shell.py:126 and 233-237: the status loop is entered
SuReturnOk ==
    /\ At("setup_upnp", "L126")
    /\ stack' = ReturnTo("L240")
    /\ log' = Append(log, Call("Exposed", "", Top.port, Top.proto, ""))
    /\ UNCHANGED <<Globals, exc, nPublic, nSignals>>

\* SuReturnNone with a removal of the rule before the prompt
SuReturnNoneRollsBack ==
    /\ At("setup_upnp", "L118") \/ At("setup_upnp", "L132")
    /\ stack' = ReturnTo("L140")
    /\ fw_rule_name' = None
    /\ UNCHANGED <<upnp_instance, mapped_port, mapped_proto, exc, log,
                   nPublic, nSignals>>

\* shell.py:118, 129, 132 and 233-234: back to the prompt
SuReturnNone ==
    /\ At("setup_upnp", "L118") \/ At("setup_upnp", "L132")
    /\ stack' = ReturnTo("L140")
    /\ UNCHANGED <<Globals, exc, log, nPublic, nSignals>>

\* --------------------------------------------------------- cleanup_upnp
\* shell.py:26-27
CuCheck ==
    /\ At("cleanup_upnp", "L26")
    /\ IF TruthyObj(upnp_instance) \/ TruthyStr(fw_rule_name)
       THEN stack' = SetTop([Top EXCEPT !.pc = "L28"]) /\ UNCHANGED log
       ELSE /\ stack' = ReturnTo("L62")
            /\ log' = Append(log, TeardownEnd("returned"))
    /\ UNCHANGED <<Globals, exc, nPublic, nSignals>>

\* the condition of shell.py:28
MappingRecorded ==
    TruthyObj(upnp_instance) /\ TruthyInt(mapped_port)
        /\ TruthyStr(mapped_proto)

\* shell.py:28-29
CuMapCond ==
    /\ At("cleanup_upnp", "L28")
    /\ stack' = SetTop([Top EXCEPT !.pc = IF MappingRecorded
                                          THEN "L31" ELSE "L42"])
    /\ UNCHANGED <<Globals, exc, log, nPublic, nSignals>>

RemoveMappingOutcomes == {"ok", "nosuch", "error"}

\* CuDelete without the except clause of shell.py:33-37
CuDeleteUncaught(res) ==
    /\ At("cleanup_upnp", "L31")
    /\ log' = Append(log, Call("RemoveMapping", "", mapped_port[1],
                               mapped_proto[1],
                               IF res = "ok" THEN "ok" ELSE "failed"))
    /\ stack' = SetTop([Top EXCEPT
                           !.pc = IF res = "ok" THEN "L32" ELSE "L39",
                           !.res = IF res = "ok" THEN "" ELSE "failed",
                           !.pend = IF res = "ok" THEN NoExc
                                    ELSE Raised("OSError", "cleanup_upnp")])
    /\ UNCHANGED <<Globals, exc, nPublic, nSignals>>

\* shell.py:30-37: deleteportmapping(mapped_port, mapped_proto); every
\* exception of the gateway is caught and printed (the frame remembers it)
CuDelete(res) ==
    /\ At("cleanup_upnp", "L31")
    /\ log' = Append(log, Call("RemoveMapping", "", mapped_port[1],
                               mapped_proto[1],
                               IF res = "ok" THEN "ok" ELSE "failed"))
    /\ stack' = SetTop([Top EXCEPT
                           !.pc = IF res = "ok" THEN "L32" ELSE "L39",
                           !.res = IF res = "ok" THEN "" ELSE "failed"])
    /\ UNCHANGED <<Globals, exc, nPublic, nSignals>>

\* shell.py:32
CuMapDone ==
    /\ At("cleanup_upnp", "L32")
    /\ stack' = SetTop([Top EXCEPT !.pc = "L39"])
    /\ UNCHANGED <<Globals, exc, log, nPublic, nSignals>>

\* shell.py:39
CuClearInstance ==
    /\ At("cleanup_upnp", "L39")
    /\ upnp_instance' = None
    /\ stack' = SetTop([Top EXCEPT !.pc = "L40"])
    /\ UNCHANGED <<mapped_port, mapped_proto, fw_rule_name, exc, log,
                   nPublic, nSignals>>

\* shell.py:40
CuClearPort ==
    /\ At("cleanup_upnp", "L40")
    /\ mapped_port' = None
    /\ stack' = SetTop([Top EXCEPT !.pc = "L41"])
    /\ UNCHANGED <<upnp_instance, mapped_proto, fw_rule_name, exc, log,
                   nPublic, nSignals>>

\* shell.py:41, then the end of the finally clause: the pending exception,
\* if any, goes on to the caller
CuClearProto ==
    /\ At("cleanup_upnp", "L41")
    /\ mapped_proto' = None
    /\ IF Top.pend = NoExc
       THEN stack' = SetTop([Top EXCEPT !.pc = "L42"]) /\ UNCHANGED exc
       ELSE stack' = Pop /\ exc' = Top.pend
    /\ UNCHANGED <<upnp_instance, mapped_port, fw_rule_name, log, nPublic,
                   nSignals>>

\* shell.py:42-43
CuRuleCond ==
    /\ At("cleanup_upnp", "L42")
    /\ IF TruthyStr(fw_rule_name)
       THEN stack' = SetTop([Top EXCEPT !.pc = "L45"]) /\ UNCHANGED log
       ELSE /\ stack' = ReturnTo("L62")
            /\ log' = Append(log, TeardownEnd("returned"))
    /\ UNCHANGED <<Globals, exc, nPublic, nSignals>>

RemoveRuleOutcomes == {"ok", "nomatch", "other", "oserror"}

\* shell.py:44-55: netsh ... delete rule name="<fw_rule_name>"; only
\* CalledProcessError is caught, any other exception of subprocess.run is
\* pending while the finally clause runs
CuNetsh(res) ==
    /\ At("cleanup_upnp", "L45")
    /\ log' = Append(log, Call("RemoveRule", fw_rule_name[1], 0, "", ""))
    /\ stack' = SetTop([Top EXCEPT
                           !.pc = IF res = "ok" THEN "L49" ELSE "L57",
                           !.pend = IF res = "oserror"
                                    THEN Raised("OSError", "cleanup_upnp")
                                    ELSE NoExc])
    /\ UNCHANGED <<Globals, exc, nPublic, nSignals>>

\* shell.py:49
CuRuleDone ==
    /\ At("cleanup_upnp", "L49")
    /\ stack' = SetTop([Top EXCEPT !.pc = "L57"])
    /\ UNCHANGED <<Globals, exc, log, nPublic, nSignals>>

\* CuClearRule without the assignment of shell.py:57
CuClearRuleKeepsName ==
    /\ At("cleanup_upnp", "L57")
    /\ IF Top.pend = NoExc
       THEN /\ stack' = ReturnTo("L62")
            /\ log' = Append(log, TeardownEnd("returned"))
            /\ UNCHANGED exc
       ELSE /\ stack' = Pop
            /\ exc' = Top.pend
            /\ log' = IF Top.res = "interrupted" THEN log
                      ELSE Append(log, TeardownEnd("raised"))
    /\ UNCHANGED <<Globals, nPublic, nSignals>>

\* shell.py:57, then the end of the finally clause and of the function
CuClearRule ==
    /\ At("cleanup_upnp", "L57")
    /\ fw_rule_name' = None
    /\ IF Top.pend = NoExc
       THEN /\ stack' = ReturnTo("L62")
            /\ log' = Append(log, TeardownEnd("returned"))
            /\ UNCHANGED exc
       ELSE /\ stack' = Pop
            /\ exc' = Top.pend
            /\ log' = IF Top.res = "interrupted" THEN log
                      ELSE Append(log, TeardownEnd("raised"))
    /\ UNCHANGED <<upnp_instance, mapped_port, mapped_proto, nPublic,
                   nSignals>>

\* -------------------------------------------------------- handle_signal
\* shell.py:60, 64-65: SIGINT or SIGTERM arrives; the handler runs on top of
\* whatever the main thread is executing
Signal ==
    /\ stack # <<>>
    /\ exc = NoExc
    /\ nSignals < MaxSignals
    /\ nSignals' = nSignals + 1
    /\ stack' = Append(stack, Frame("handle_signal", "L61"))
    /\ UNCHANGED <<Globals, exc, log, nPublic>>

\* shell.py:61
HsCleanup ==
    /\ At("handle_signal", "L61")
    /\ stack' = Append(stack, Frame("cleanup_upnp", "L26"))
    /\ UNCHANGED <<Globals, exc, log, nPublic, nSignals>>

\* shell.py:62: sys.exit(0) raises SystemExit
HsExit ==
    /\ At("handle_signal", "L62")
    /\ exc' = Raised("SystemExit", "handle_signal")
    /\ UNCHANGED <<Globals, stack, log, nPublic, nSignals>>

\* ------------------------------------------------------------ exit hook
\* shell.py:66: the interpreter calls cleanup_upnp when it exits
AtexitCleanup ==
    /\ At("atexit", "call")
    /\ stack' = Append(stack, Frame("cleanup_upnp", "L26"))
    /\ UNCHANGED <<Globals, exc, log, nPublic, nSignals>>

\* ------------------------------------------------ exception propagation
\* lines of setup_upnp inside its try block (shell.py:114-129)
SetupTryLines == {"L115", "L118", "L122", "L123", "L124", "L125", "L126"}

\* The exception in flight meets the innermost frame:
\*   shell.py:29-41   except Exception catches OSError, finally runs for all
\*   shell.py:43-57   finally runs, the exception stays pending
\*   shell.py:130-132 except Exception catches OSError
\*   shell.py:249-254 run_shell catches neither; the interpreter exits
\*   the exit hook reports the exception and the process ends
Unwind ==
    /\ stack # <<>>
    /\ exc # NoExc
    /\ CASE Top.fn = "cleanup_upnp" /\ Top.pc \in {"L31", "L32"} ->
              /\ stack' = SetTop([Top EXCEPT
                                     !.pc = "L39",
                                     !.pend = IF exc.type = "OSError"
                                              THEN NoExc ELSE exc,
                                     !.res = IF exc.type = "OSError"
                                             THEN "" ELSE "interrupted"])
              /\ exc' = NoExc
         [] Top.fn = "cleanup_upnp" /\ Top.pc \in {"L45", "L49"} ->
              /\ stack' = SetTop([Top EXCEPT !.pc = "L57", !.pend = exc,
                                              !.res = "interrupted"])
              /\ exc' = NoExc
         [] Top.fn = "setup_upnp" /\ Top.pc \in SetupTryLines
                /\ exc.type = "OSError" ->
              /\ stack' = SetTop([Top EXCEPT !.pc = "L132"])
              /\ exc' = NoExc
         [] Top.fn = "run_shell" ->
              /\ stack' = LeaveShell
              /\ exc' = NoExc
         [] Top.fn = "atexit" ->
              /\ stack' = <<>>
              /\ exc' = NoExc
         [] OTHER ->
              /\ stack' = Pop
              /\ UNCHANGED exc
    /\ UNCHANGED <<Globals, log, nPublic, nSignals>>

Next ==
    \/ CmdExit
    \/ PromptEOF
    \/ PromptKeyboardInterrupt
    \/ CmdOther
    \/ CmdRaises
    \/ \E params \in PublicParams : CmdPublic(params)
    \/ CmdRejected
    \/ CallSetupUpnp
    \/ ReportTick
    \/ AfrSetName
    \/ \E res \in AddRuleOutcomes : AfrRun(res)
    \/ AfrReturn
    \/ \E res \in DiscoverOutcomes : SuDiscover(res)
    \/ \E res \in AddMappingOutcomes : SuAddMapping(res)
    \/ SuRecordInstance
    \/ SuRecordPort
    \/ SuRecordProto
    \/ SuReturnOk
    \/ SuReturnNone
    \/ CuCheck
    \/ CuMapCond
    \/ \E res \in RemoveMappingOutcomes : CuDelete(res)
    \/ CuMapDone
    \/ CuClearInstance
    \/ CuClearPort
    \/ CuClearProto
    \/ CuRuleCond
    \/ \E res \in RemoveRuleOutcomes : CuNetsh(res)
    \/ CuRuleDone
    \/ CuClearRule
    \/ Signal
    \/ HsCleanup
    \/ HsExit
    \/ AtexitCleanup
    \/ Unwind

Spec == Init /\ [][Next]_vars

\* ------------------------------------------------------------ the claims
Idx == 1..Len(log)

\* the process has ended: the exit hook has run and no frame is left
Terminated == stack = <<>>

\* log entry i reports a firewall rule that netsh added
RuleAdded(i) == log[i].op = "AddRule" /\ log[i].res = "ok"

\* log entry i reports a port mapping that the gateway accepted
MappingAdded(i) == log[i].op = "AddMapping" /\ log[i].res = "ok"

\* entry j is the release call for the resource that entry i added
Releases(j, i) ==
    \/ /\ log[i].op = "AddRule"
       /\ log[j].op = "RemoveRule"
       /\ log[j].name = log[i].name
    \/ /\ log[i].op = "AddMapping"
       /\ log[j].op = "RemoveMapping"
       /\ log[j].port = log[i].port
       /\ log[j].proto = log[i].proto

\* the release calls issued for the resource of entry i after it was added
ReleasesOf(i) == { j \in Idx : j > i /\ Releases(j, i) }

\* C1: when the process has terminated, by whatever path, every firewall
\* rule that AddRule added and every port mapping that AddMapping added
\* during the run has had its release call issued exactly once.
C1_ReleasedExactlyOnce ==
    Terminated =>
        \A i \in Idx :
            (RuleAdded(i) \/ MappingAdded(i)) => Cardinality(ReleasesOf(i)) = 1

\* a call of cleanup_upnp has ended and no `public` command was accepted
\* since
TeardownDone ==
    \E i \in Idx :
        /\ log[i].op = "TeardownEnd"
        /\ \A j \in Idx : j > i => log[j].op # "Expose"

IsRelease(e) == e.op \in {"RemoveMapping", "RemoveRule"}

\* nothing is left that cleanup_upnp would release
NothingToRelease == ~MappingRecorded /\ ~TruthyStr(fw_rule_name)

\* the log entries that the step adds
NewEntries == { j \in 1..Len(log') : j > Len(log) }

\* C2: once a call of cleanup_upnp has ended, and until the next accepted
\* `public` command, nothing is left to release, and no step (of a later
\* call of cleanup_upnp in particular) issues a release call or changes the
\* mapping and rule fields: the release calls are those of the first call
\* that found the field set.
C2_IdempotentTeardown ==
    /\ [](TeardownDone => NothingToRelease)
    /\ [][TeardownDone =>
            /\ Globals' = Globals
            /\ \A j \in NewEntries : ~IsRelease(log'[j])]_vars

\* two calls of cleanup_upnp have ended one after the other on a session
\* with a mapping and a rule, and each was released once
C2_Witness ==
    /\ Terminated
    /\ \E a, b \in Idx :
        /\ a < b
        /\ log[a].op = "TeardownEnd"
        /\ log[b].op = "TeardownEnd"
        /\ \A j \in Idx : j > a => log[j].op # "Expose"
    /\ Cardinality({ j \in Idx : log[j].op = "RemoveMapping" }) = 1
    /\ Cardinality({ j \in Idx : log[j].op = "RemoveRule" }) = 1

\* an Expose that reached the status loop (entry x) and a call of
\* cleanup_upnp that ended after it (entry t): RemoveMapping for the port
\* and protocol of AddMapping was issued, then RemoveRule for the name given
\* to AddRule, which is MiniShell_<port>_<PROTOCOL>, and no release call
\* names anything else
LifecycleReleased(x, t) ==
    LET port == log[x].port
        proto == log[x].proto
        name == RuleName(port, proto)
    IN  /\ (port = 8 /\ proto = "TCP") => name = "MiniShell_8_TCP"
        /\ \E a, m \in Idx :
            /\ a < m /\ m < x
            /\ log[a].op = "AddRule" /\ log[a].name = name
            /\ log[a].port = port /\ log[a].proto = proto
            /\ log[m].op = "AddMapping" /\ log[m].res = "ok"
            /\ log[m].port = port /\ log[m].proto = proto
        /\ \E r, q \in Idx :
            /\ x < r /\ r < q /\ q < t
            /\ log[r].op = "RemoveMapping"
            /\ log[r].port = port /\ log[r].proto = proto
            /\ log[q].op = "RemoveRule" /\ log[q].name = name
        /\ \A j \in Idx :
            j > x =>
                /\ log[j].op = "RemoveMapping" =>
                       log[j].port = port /\ log[j].proto = proto
                /\ log[j].op = "RemoveRule" => log[j].name = name

\* C3: in a full lifecycle, Expose(port, protocol) up to the status loop
\* followed by Teardown, RemoveMapping is invoked before RemoveRule,
\* RemoveMapping targets the (port, protocol) passed to AddMapping and
\* RemoveRule targets the name MiniShell_<port>_<PROTOCOL> passed to AddRule.
C3_ReleaseOrdering ==
    \A x, t \in Idx :
        (x < t /\ log[x].op = "Exposed" /\ log[t].op = "TeardownEnd")
            => LifecycleReleased(x, t)

\* frame f is between a successful AddRule and the completion of AddMapping
InProvisionWindow(f) ==
    \/ f.fn = "add_firewall_rule" /\ f.pc = "L91"
           /\ (f.res = "ok" \/ f.res \in SoftOutcomes)
    \/ f.fn = "run_shell" /\ f.pc = "L231"
    \/ f.fn = "setup_upnp" /\ f.pc \in {"L115", "L122"}

\* the log entries after the latest accepted `public` command
SinceExpose ==
    { j \in Idx : \A i \in Idx : log[i].op = "Expose" => i < j }

\* the signal handler at stack[k] interrupted the provisioning window: its
\* call of cleanup_upnp issues no RemoveMapping and, once back in
\* handle_signal, has issued RemoveRule for the recorded rule exactly once
WindowTeardown(k) ==
    LET f == stack[k - 1]
        name == RuleName(f.port, f.proto)
    IN  /\ \A j \in SinceExpose : log[j].op # "RemoveMapping"
        /\ stack[k].pc = "L62" =>
               Cardinality({ j \in SinceExpose :
                               log[j].op = "RemoveRule"
                                   /\ log[j].name = name }) = 1

\* the call of cleanup_upnp made by the handler at stack[k] raised
TeardownRaisedInto(k) ==
    /\ k = Len(stack)
    /\ exc.type = "OSError"
    /\ exc.origin = "cleanup_upnp"

\* C4: a signal delivered after AddRule has succeeded and before AddMapping
\* has completed makes Teardown issue RemoveRule for the recorded rule and
\* no RemoveMapping, and Teardown does not raise.
C4_SignalDuringProvision ==
    \A k \in 2..Len(stack) :
        (stack[k].fn = "handle_signal" /\ InProvisionWindow(stack[k - 1]))
            => WindowTeardown(k) /\ ~TeardownRaisedInto(k)

\* the (port, protocol) pairs mapped at the gateway for which no release
\* call has been issued since
LiveMappings ==
    { <<log[i].port, log[i].proto>> :
        i \in { j \in Idx : MappingAdded(j) /\ ReleasesOf(j) = {} } }

\* C5: in every reachable state at most one port mapping is live; a second
\* Expose never leaves two mappings added at the gateway and not released.
C5_AtMostOneLiveMapping == Cardinality(LiveMappings) <= 1

\* tok is word, letter case aside
EqIgnoreCase(tok, word) ==
    /\ Len(tok) = Len(word)
    /\ \A i \in 1..Len(tok) : UpperChar(tok[i]) = word[i]

\* the command names TCP or UDP
ProtocolGiven(params) ==
    /\ params # <<>>
    /\ \/ EqIgnoreCase(params[1], <<"T", "C", "P">>)
       \/ EqIgnoreCase(params[1], <<"U", "D", "P">>)

\* the command carries a --port: parameter whose text is an integer
PortGiven(params) ==
    \E i \in 2..Len(params) :
        StartsWithPort(params[i]) /\ ParseInt(AfterColon(params[i])) # None

\* C6: a `public` command whose port is missing or not an integer, or whose
\* protocol is not TCP or UDP in any letter case, is rejected: from the
\* prompt through its message back to the prompt, the mapping and rule
\* fields stay as they are and no external call is issued.
C6_ValidationNoSideEffect ==
    [][/\ \A params \in PublicParams :
            ((~ProtocolGiven(params) \/ ~PortGiven(params))
                    /\ CmdPublic(params))
                => /\ UNCHANGED <<Globals, log>>
                   /\ Len(stack') = Len(stack)
                   /\ stack'[Len(stack')].fn = "run_shell"
                   /\ stack'[Len(stack')].pc \in RejectLines
       /\ CmdRejected
                => /\ UNCHANGED <<Globals, log>>
                   /\ stack'[Len(stack')].pc = "L140"]_vars

\* a command with an unusable port has been rejected while a rule is
\* recorded
C6_Witness ==
    /\ At("run_shell", "L225")
    /\ TruthyStr(fw_rule_name)

\* C7: Expose validates the port: a port that is not positive, or outside
\* 1..65535, is rejected with no state change, so no `public` command is
\* accepted and no AddRule or gateway call is made for such a port.
C7_PortRangeValidated ==
    \A i \in Idx :
        log[i].op \in {"Expose", "AddRule", "AddMapping"}
            => log[i].port \in 1..65535

\* C8: Teardown never raises to its caller, whatever the outcome of the
\* external calls, and no operation of the core lets a failure of an
\* external call reach its caller uncaught.
C8_NoUncaughtFailure ==
    ~(exc.type = "OSError"
          /\ exc.origin \in {"cleanup_upnp", "add_firewall_rule"})

\* the outcomes of AddRule that Expose goes on from
GoesOn == {"ok", "exists", "denied"}

\* a rule that AddRule reported as added, existing or denied (entry i) and
\* a later end of cleanup_upnp within the same Expose (entry t): RemoveRule
\* was issued for the name given to AddRule
RuleReleasedBy(i, t) ==
    \E r \in Idx :
        /\ i < r /\ r < t
        /\ log[r].op = "RemoveRule"
        /\ log[r].name = log[i].name

\* C9: whether AddRule ends in fresh success, in 'already exists' or in
\* 'permission denied', the rule field holds MiniShell_<port>_<PROTOCOL>,
\* Expose goes on to the mapping step, and the Teardown that follows issues
\* RemoveRule for that name.
C9_SoftSuccessEquivalence ==
    /\ [](\A k \in 1..Len(stack) :
            (/\ k = Len(stack) /\ exc = NoExc
             /\ stack[k].fn = "add_firewall_rule" /\ stack[k].pc = "L91"
             /\ stack[k].res \in GoesOn)
                => /\ fw_rule_name = <<RuleName(stack[k].port, stack[k].proto)>>
                   /\ (stack[k].port = 8 /\ stack[k].proto = "UDP")
                          => fw_rule_name = <<"MiniShell_8_UDP">>)
    /\ [](\A i, t \in Idx :
            (/\ i < t
             /\ log[i].op = "AddRule" /\ log[i].res \in {"ok", "soft"}
             /\ log[t].op = "TeardownEnd"
             /\ \A j \in Idx : (i < j /\ j < t) => log[j].op # "Expose")
                => RuleReleasedBy(i, t))
    /\ [][(AfrReturn /\ Top.res \in GoesOn)
            => /\ stack'[Len(stack')].pc = "L231"
               /\ UNCHANGED <<Globals, log>>]_vars

\* AddRule ended in 'already exists' or 'permission denied', Expose went on
\* to the gateway, and the Teardown at exit removed the rule by its name
C9_Witness ==
    /\ Terminated
    /\ \E i, m, r \in Idx :
        /\ i < m /\ m < r
        /\ log[i].op = "AddRule" /\ log[i].res = "soft"
        /\ log[m].op = "AddMapping"
        /\ log[r].op = "RemoveRule" /\ log[r].name = log[i].name

\* run_shell is in the status loop of shell.py:238-243
Reporting ==
    /\ stack # <<>>
    /\ stack[1].fn = "run_shell"
    /\ stack[1].pc = "L240"

\* after log entry x, RemoveMapping(port, proto) and then RemoveRule of the
\* rule of (port, proto) were issued
TornDownAfter(x, port, proto) ==
    \E m, r \in Idx :
        /\ x < m /\ m < r
        /\ log[m].op = "RemoveMapping"
        /\ log[m].port = port /\ log[m].proto = proto
        /\ log[r].op = "RemoveRule"
        /\ log[r].name = RuleName(port, proto)

\* C10: once run_shell is in the status loop, a delivered signal leads to
\* Teardown (RemoveMapping, then RemoveRule) before the process terminates,
\* and the loop is never left for the prompt or in a way that skips Teardown.
C10_ReportingEndsInTeardown ==
    /\ [](Terminated =>
            \A x \in Idx :
                log[x].op = "Exposed"
                    => TornDownAfter(x, log[x].port, log[x].proto))
    /\ [][Reporting => (stack' = <<>> \/ stack'[1].fn = "atexit"
                            \/ stack'[1].pc = "L240")]_vars

\* C11: while the status loop is active, an `exit` command entered by the
\* user is accepted: whenever run_shell waits in the loop, the step of the
\* `exit` command (to Teardown and termination) can be taken.
C11_ExitAcceptedInReporting ==
    (Reporting /\ Len(stack) = 1 /\ exc = NoExc) => ENABLED CmdExit

\* cleanup_upnp runs on top of another, unfinished cleanup_upnp
NestedTeardown ==
    /\ stack # <<>>
    /\ Top.fn = "cleanup_upnp"
    /\ \E k \in 1..(Len(stack) - 1) : stack[k].fn = "cleanup_upnp"

\* the release call e repeats a release call of the log for a resource that
\* was not acquired again in between
RepeatsRelease(e) ==
    \E i \in Idx :
        /\ log[i].op = e.op
        /\ \/ /\ e.op = "RemoveMapping"
              /\ log[i].port = e.port /\ log[i].proto = e.proto
              /\ \A j \in Idx : j > i => ~MappingAdded(j)
           \/ /\ e.op = "RemoveRule"
              /\ log[i].name = e.name
              /\ \A j \in Idx : j > i => log[j].op # "AddRule"

\* C12: a Teardown invoked by a signal while an earlier Teardown is still in
\* progress finds the field taken: it issues no second RemoveMapping or
\* RemoveRule for a resource whose release the earlier one has started.
C12_TakeOnceReentrant ==
    [][(NestedTeardown /\ Len(log') = Len(log) + 1)
           => ~RepeatsRelease(log'[Len(log')])]_vars

\* the three fields of the mapping are all set, or all None
MappingWhole ==
    \/ upnp_instance # None /\ mapped_port # None /\ mapped_proto # None
    \/ upnp_instance = None /\ mapped_port = None /\ mapped_proto = None

\* C13: recording a mapping is atomic for a signal handler: wherever a
\* handler can run during setup_upnp the mapping is fully recorded or fully
\* absent, and a Teardown that ends after the gateway accepted AddMapping
\* has issued RemoveMapping for that mapping.
C13_RecordAtomic ==
    /\ (stack # <<>> /\ Top.fn = "setup_upnp" /\ exc = NoExc)
           => MappingWhole
    /\ \A i, t \in Idx :
           (i < t /\ MappingAdded(i) /\ log[t].op = "TeardownEnd")
               => \E m \in Idx :
                      /\ i < m /\ m < t
                      /\ log[m].op = "RemoveMapping"
                      /\ log[m].port = log[i].port
                      /\ log[m].proto = log[i].proto

\* log entry i is an AddRule that netsh ended with an error other than
\* 'already exists' and 'access is denied'
RuleRefused(i) == log[i].op = "AddRule" /\ log[i].res = "other"

\* C14: when AddRule ends in a hard failure, Expose aborts with no state
\* recorded: the rule field stays absent if it was absent, run_shell goes
\* back to the prompt without Discover or AddMapping, and a later Teardown
\* issues no RemoveRule on account of the failed attempt.
C14_HardFailureRecordsNothing ==
    /\ []((/\ At("add_firewall_rule", "L91") /\ Top.res = "other"
           /\ \A i \in Idx : i < Len(log) => log[i].op # "AddRule")
              => fw_rule_name = None)
    /\ [](\A i, r \in Idx :
            (/\ i < r /\ RuleRefused(i)
             /\ log[r].op = "RemoveRule" /\ log[r].name = log[i].name)
                => \E j \in Idx :
                       /\ j < r
                       /\ log[j].op = "AddRule"
                       /\ log[j].name = log[i].name
                       /\ log[j].res \in {"ok", "soft"})
    /\ [][(AfrReturn /\ Top.res = "other")
            => stack'[Len(stack')].pc = "L140"]_vars

\* the running cleanup_upnp is at line pc after its RemoveMapping failed,
\* and no signal has cut it short
AfterFailedRemove(pc) ==
    /\ exc = NoExc
    /\ At("cleanup_upnp", pc)
    /\ Top.res = "failed"

\* this step is taken by the running function itself, not by a handler
OwnStep == Len(stack') <= Len(stack)

\* C15: Teardown does not abort on a component failure: when RemoveMapping
\* fails with a mapping and a rule recorded, Teardown goes on to clear the
\* mapping, issues RemoveRule for the recorded rule and clears the rule
\* field, whether or not RemoveRule fails.
C15_TeardownContinues ==
    /\ [](\A pc \in {"L42", "L45"} :
            AfterFailedRemove(pc)
                => /\ <<upnp_instance, mapped_port, mapped_proto>>
                          = <<None, None, None>>
                   /\ TruthyStr(fw_rule_name))
    /\ [][/\ (/\ At("cleanup_upnp", "L31")
              /\ Len(log') = Len(log) + 1
              /\ log'[Len(log')].res = "failed")
                 => /\ Len(stack') = Len(stack)
                    /\ stack'[Len(stack')].pc = "L39"
                    /\ stack'[Len(stack')].pend = NoExc
                    /\ exc' = NoExc
                    /\ TruthyStr(fw_rule_name)
          /\ \A pc \in {"L39", "L40", "L41", "L42"} :
                (AfterFailedRemove(pc) /\ OwnStep)
                    => /\ Len(stack') = Len(stack)
                       /\ exc' = NoExc
                       /\ stack'[Len(stack')].pc # pc
          /\ (AfterFailedRemove("L45") /\ OwnStep)
                => /\ Len(log') = Len(log) + 1
                   /\ log'[Len(log')].op = "RemoveRule"
                   /\ log'[Len(log')].name = fw_rule_name[1]
                   /\ stack'[Len(stack')].pc \in {"L49", "L57"}
          /\ (/\ At("cleanup_upnp", "L57") /\ Top.res = "failed"
              /\ exc = NoExc /\ OwnStep)
                => Globals' = <<None, None, None, None>>]_vars

\* RemoveMapping failed, RemoveRule raised, and cleanup_upnp has ended with
\* all fields cleared
C15_Witness ==
    /\ Globals = <<None, None, None, None>>
    /\ \E m, r, t \in Idx :
        /\ m < r /\ r < t
        /\ log[m].op = "RemoveMapping" /\ log[m].res = "failed"
        /\ log[r].op = "RemoveRule"
        /\ log[t] = TeardownEnd("raised")

\* this step is a failure of Discover or of AddMapping in setup_upnp
GatewayFails ==
    /\ exc = NoExc
    /\ At("setup_upnp", "L115") \/ At("setup_upnp", "L122")
    /\ Len(stack') = Len(stack)
    /\ stack'[Len(stack')].pc \in {"L118", "L132"}

\* this step is the return of setup_upnp after a failure
FailedSetupReturns ==
    /\ exc = NoExc
    /\ At("setup_upnp", "L118") \/ At("setup_upnp", "L132")
    /\ Len(stack') = Len(stack) - 1

\* C16: when Discover or AddMapping fails after AddRule succeeded, Expose
\* goes back to the prompt, not to the status loop, records no mapping,
\* issues no RemoveRule inline and leaves the rule recorded; RemoveRule is
\* issued, and the rule field cleared, by cleanup_upnp only.
C16_FailedMappingKeepsRule ==
    [][/\ (exc = NoExc /\ stack # <<>> /\ Top.fn = "setup_upnp"
              /\ Top.pc \in {"L115", "L122", "L118", "L132"})
           => UNCHANGED Globals
       /\ GatewayFails
           => /\ fw_rule_name = <<RuleName(Top.port, Top.proto)>>
              /\ \A j \in NewEntries : log'[j].op = "AddMapping"
       /\ FailedSetupReturns
           => /\ UNCHANGED <<Globals, log>>
              /\ stack'[Len(stack')].fn = "run_shell"
              /\ stack'[Len(stack')].pc = "L140"
       /\ (\/ \E j \in NewEntries : log'[j].op = "RemoveRule"
           \/ fw_rule_name # None /\ fw_rule_name' = None)
           => Top.fn = "cleanup_upnp"]_vars

\* AddMapping failed and run_shell is back at the prompt with the rule
\* still recorded and no mapping
C16_Witness ==
    /\ At("run_shell", "L140")
    /\ log # <<>>
    /\ log[Len(log)].op = "AddMapping" /\ log[Len(log)].res = "failed"
    /\ fw_rule_name = <<RuleName(log[Len(log)].port, log[Len(log)].proto)>>
    /\ <<upnp_instance, mapped_port, mapped_proto>> = <<None, None, None>>

\* C17: after any call of cleanup_upnp returns, the session is cleared: the
\* gateway handle, the port, the protocol and the rule name are all absent,
\* whatever accepted `public` command produced the state.
C17_ClearedAfterTeardown ==
    [][\A j \in NewEntries :
           log'[j] = TeardownEnd("returned")
               => /\ upnp_instance' = None
                  /\ mapped_port' = None
                  /\ mapped_proto' = None
                  /\ fw_rule_name' = None]_vars

\* C18: in every reachable state, also in the middle of the `public`
\* command or of cleanup_upnp, a recorded mapping (gateway handle, port and
\* protocol present) implies a recorded firewall rule.
C18_MappingImpliesRule ==
    (upnp_instance # None /\ mapped_port # None /\ mapped_proto # None)
        => fw_rule_name # None

====
